---- MODULE Spec2Model ----
(***************************************************************************)
(* Model of express-jobly's data-access core: the SQL builder              *)
(* (helpers/sql.js) and the Company and Job repositories (models/*.js)     *)
(* over a two-table relational store.                                      *)
(*                                                                         *)
(* SQL text is modelled as real strings (TLC evaluates \o, Len, Head,      *)
(* Tail and SubSeq on strings); the only normalisation is that runs of     *)
(* white space inside the source's multi-line template literals are        *)
(* written as one space.                                                   *)
(***************************************************************************)
EXTENDS Integers, Sequences, FiniteSets, TLC

VARIABLES companies, jobs, nextId, call, outcome, queries, generated, inflight

vars == <<companies, jobs, nextId, call, outcome, queries, generated, inflight>>

storage == <<companies, jobs, nextId>>

(***************************************************************************)
(* Bounds of the model.                                                    *)
(***************************************************************************)
\* longest partial-update payload that is enumerated
MaxKeys == 2
\* number of requests that are served concurrently
MaxProcs == 3
\* numeric filter values are drawn from 0..MaxNum
MaxNum == 2
\* job ids handed out by the jobs table's serial column are capped here
MaxJobs == 2

(***************************************************************************)
(* JavaScript values.  Every value is a record of the same shape, so that  *)
(* values of different JavaScript types can be compared.                   *)
(***************************************************************************)
Undef == [t |-> "undefined", s |-> "", n |-> 0, b |-> FALSE]

Null == [t |-> "null", s |-> "", n |-> 0, b |-> FALSE]

NaN == [t |-> "NaN", s |-> "", n |-> 0, b |-> FALSE]

Str(x) == [t |-> "string", s |-> x, n |-> 0, b |-> FALSE]

Num(x) == [t |-> "number", s |-> "", n |-> x, b |-> FALSE]

Bool(x) == [t |-> "boolean", s |-> "", n |-> 0, b |-> x]

\* ToBoolean: what `if (v)`, `!v`, `a && b` and `a || b` test
TruthyMutant(v) == v.t # "undefined"

Truthy(v) ==
    CASE v.t = "string" -> v.s # ""
      [] v.t = "number" -> v.n # 0
      [] v.t = "boolean" -> v.b
      [] OTHER -> FALSE

\* ToString, as applied by template literals and by parseInt to its argument
JsToString(v) ==
    CASE v.t = "string" -> v.s
      [] v.t = "number" -> ToString(v.n)
      [] v.t = "boolean" -> (IF v.b THEN "true" ELSE "false")
      [] OTHER -> v.t

Digits == "0123456789"

HexDigits == "0123456789abcdef"

RECURSIVE IndexOf(_, _)
\* 0-based position of character c in string s, or Len(s) when absent
IndexOf(s, c) ==
    IF s = "" THEN 0
    ELSE IF Head(s) = c THEN 0
    ELSE 1 + IndexOf(Tail(s), c)

UpperCase == "ABCDEFGHIJKLMNOPQRSTUVWXYZ"

LowerCase == "abcdefghijklmnopqrstuvwxyz"

\* each character of `from` mapped to the character of `to` at its position
CharMap(from, to) ==
    [c \in {SubSeq(from, i, i) : i \in 1..Len(from)} |->
        LET i == IndexOf(from, c) IN SubSeq(to, i + 1, i + 1)]

LowerOf == CharMap(UpperCase, LowerCase)

ToLowerChar(c) == IF c \in DOMAIN LowerOf THEN LowerOf[c] ELSE c

RECURSIVE ToLower(_)
ToLower(s) == IF s = "" THEN "" ELSE ToLowerChar(Head(s)) \o ToLower(Tail(s))

\* the value of each hexadecimal digit
HexValue ==
    [c \in {SubSeq(HexDigits, i, i) : i \in 1..16} |-> IndexOf(HexDigits, c)]

\* value of c as a digit of the given radix, or radix when it is none
DigitValue(c, radix) ==
    LET d == ToLowerChar(c)
    IN  IF d \in DOMAIN HexValue /\ HexValue[d] < radix THEN HexValue[d] ELSE radix

RECURSIVE TrimStart(_)
TrimStart(s) ==
    IF s # "" /\ Head(s) \in {" ", "\t", "\n"} THEN TrimStart(Tail(s)) ELSE s

RECURSIVE ParseDigits(_, _, _, _)
\* the longest prefix of s made of digits of the radix: <<digits seen, value>>
ParseDigits(s, radix, seen, acc) ==
    IF s = "" \/ DigitValue(Head(s), radix) = radix
    THEN <<seen, acc>>
    ELSE ParseDigits(Tail(s), radix, seen + 1, acc * radix + DigitValue(Head(s), radix))

\* Number.parseInt(v) with no radix argument
parseInt(v) ==
    LET s0 == TrimStart(JsToString(v))
        neg == s0 # "" /\ Head(s0) = "-"
        s1 == IF s0 # "" /\ Head(s0) \in {"-", "+"} THEN Tail(s0) ELSE s0
        hex == Len(s1) >= 2 /\ ToLower(SubSeq(s1, 1, 2)) = "0x"
        s2 == IF hex THEN SubSeq(s1, 3, Len(s1)) ELSE s1
        r == ParseDigits(s2, IF hex THEN 16 ELSE 10, 0, 0)
    IN  IF r[1] = 0 THEN NaN
        ELSE Num(IF neg THEN 0 - r[2] ELSE r[2])

\* Number.isNaN(v): true only of the number NaN, no coercion
isNaN(v) == v.t = "NaN"

(***************************************************************************)
(* JavaScript objects.  An object whose key order matters is a sequence of *)
(* [k, v] entries in Object.keys order; a destructured options record is a *)
(* function from the keys that are present to their values.                *)
(***************************************************************************)
ObjectKeys(obj) == [i \in 1..Len(obj) |-> obj[i].k]

ObjectValues(obj) == [i \in 1..Len(obj) |-> obj[i].v]

\* obj[key] for an options record: undefined when the key is absent
Get(obj, key) == IF key \in DOMAIN obj THEN obj[key] ELSE Undef

RECURSIVE Join(_, _)
\* Array.prototype.join
Join(parts, sep) ==
    IF Len(parts) = 0 THEN ""
    ELSE IF Len(parts) = 1 THEN parts[1]
    ELSE parts[1] \o sep \o Join(Tail(parts), sep)

(***************************************************************************)
(* helpers/sql.js                                                          *)
(***************************************************************************)
NoError == ""

\* jsToSql[colName] || colName: a missing or empty entry falls back to colName
ColumnNameMutant(jsToSql, colName) == colName

ColumnName(jsToSql, colName) ==
    IF colName \in DOMAIN jsToSql /\ jsToSql[colName] # ""
    THEN jsToSql[colName]
    ELSE colName

\* the placeholder of the idx-th key (idx counts from 1 here, from 0 in the source)
PlaceholderMutant(idx) == "$" \o ToString(idx - 1)

Placeholder(idx) == "$" \o ToString((idx - 1) + 1)

\* if (keys.length === 0) throw new BadRequestError("No data")
NoDataMutant(keys) == FALSE

NoData(keys) == Len(keys) = 0

sqlForPartialUpdate(dataToUpdate, jsToSql) ==
    LET keys == ObjectKeys(dataToUpdate)
        cols == [idx \in 1..Len(keys) |->
                    "\"" \o ColumnName(jsToSql, keys[idx]) \o "\"=" \o Placeholder(idx)]
    IN  IF NoData(keys)
        THEN [error |-> "BadRequestError", setCols |-> "", values |-> <<>>]
        ELSE [error |-> NoError,
              setCols |-> Join(cols, ", "),
              values |-> ObjectValues(dataToUpdate)]

generateCompanyFiltersSql(opts) ==
    LET nameLike == Get(opts, "nameLike")
        minEmployees == Get(opts, "minEmployees")
        maxEmployees == Get(opts, "maxEmployees")
        sql1 == IF Truthy(nameLike) THEN "WHERE name ILIKE $1" ELSE ""
        values1 == IF Truthy(nameLike)
                   THEN <<Str("%" \o JsToString(nameLike) \o "%")>>
                   ELSE <<>>
        sql2 == IF ~Truthy(minEmployees) THEN sql1
                ELSE IF sql1 = "" THEN sql1 \o "WHERE num_employees >= $1"
                ELSE sql1 \o " AND num_employees >= $2"
        values2 == IF Truthy(minEmployees) THEN Append(values1, minEmployees) ELSE values1
        numVar == Len(values2) + 1
        sql3 == IF ~Truthy(maxEmployees) THEN sql2
                ELSE IF sql2 = "" THEN sql2 \o "WHERE num_employees <= $" \o ToString(numVar)
                ELSE sql2 \o " AND num_employees <= $" \o ToString(numVar)
        values3 == IF Truthy(maxEmployees) THEN Append(values2, maxEmployees) ELSE values2
    IN  [filtersSql |-> sql3, values |-> values3]

generateJobFiltersSql(opts) ==
    LET titleLike == Get(opts, "titleLike")
        minSalary == Get(opts, "minSalary")
        hasEquity == Get(opts, "hasEquity")
        sql1 == IF Truthy(titleLike) THEN "WHERE title ILIKE $1" ELSE ""
        values1 == IF Truthy(titleLike)
                   THEN <<Str("%" \o JsToString(titleLike) \o "%")>>
                   ELSE <<>>
        sql2 == IF ~Truthy(minSalary) THEN sql1
                ELSE IF sql1 = "" THEN sql1 \o "WHERE salary >= $1"
                ELSE sql1 \o " AND salary >= $2"
        values2 == IF Truthy(minSalary) THEN Append(values1, minSalary) ELSE values1
        sql3 == IF ~Truthy(hasEquity) THEN sql2
                ELSE IF sql2 = "" THEN sql2 \o "WHERE equity IS NOT NULL"
                ELSE sql2 \o " AND equity IS NOT NULL"
    IN  [filtersSql |-> sql3, values |-> values2]

(***************************************************************************)
(* The record of the last call: what was called with what, how it ended,   *)
(* the storage queries it issued and the filter generators it invoked.     *)
(***************************************************************************)
EmptyObject == <<>>

NoFilters == [t |-> "undefined", o |-> EmptyObject]

Filters(obj) == [t |-> "object", o |-> obj]

Call(op, key, data, jsToSql, filters) ==
    [op |-> op, key |-> key, data |-> data, jsToSql |-> jsToSql, filters |-> filters]

Returned(ret) == [error |-> NoError, ret |-> ret]

Threw(kind) == [error |-> kind, ret |-> Undef]

\* the requests served concurrently, each making one call
Procs == 1..MaxProcs

\* a request's call between two of its queries: the call, the statement it
\* issues next ("idle" before its first, "done" after its last), how it ended
InFlight(op, key, data, pc, out) ==
    [op |-> op, key |-> key, data |-> data, pc |-> pc, outcome |-> out]

\* no request has called anything
AllIdle == [p \in Procs |-> InFlight("none", Undef, <<>>, "idle", Returned(Undef))]

(***************************************************************************)
(* Inputs of the SQL builder when it is called directly.                   *)
(***************************************************************************)
UpdateKeys == {"name", "numEmployees", "logoUrl"}

UpdateValues == {Str("New"), Num(1), Null}

SqlNames == {"num_employees", "logo_url"}

Entries(keys, values) == [k : keys, v : values]

\* objects of at most n of these entries, with pairwise different keys
Objects(entries, n) ==
    UNION {{obj \in [1..len -> entries] :
                \A i, j \in 1..len : i # j => obj[i].k # obj[j].k} : len \in 0..n}

Payloads == Objects(Entries(UpdateKeys, UpdateValues), MaxKeys)

NameMappings == UNION {[S -> SqlNames] : S \in SUBSET UpdateKeys}

NumericFilters == {Undef} \cup {Num(i) : i \in 0..MaxNum}

PatternFilters == {Undef, Str(""), Str("net")}

\* an options record built from three (possibly undefined) values
Options(k1, v1, k2, v2, k3, v3) ==
    LET present == {x \in {<<k1, v1>>, <<k2, v2>>, <<k3, v3>>} : x[2] # Undef}
    IN  [k \in {x[1] : x \in present} |-> (CHOOSE x \in present : x[1] = k)[2]]

CompanyOptions ==
    {Options("nameLike", a, "minEmployees", b, "maxEmployees", c) :
        a \in PatternFilters, b \in NumericFilters, c \in NumericFilters}

JobOptions ==
    {Options("titleLike", a, "minSalary", b, "hasEquity", c) :
        a \in PatternFilters, b \in NumericFilters,
        c \in {Undef, Bool(TRUE), Bool(FALSE)}}

(***************************************************************************)
(* Direct calls of the builder (as helpers/sql.test.js makes them).        *)
(***************************************************************************)
CallSqlForPartialUpdate(dataToUpdate, jsToSql) ==
    LET r == sqlForPartialUpdate(dataToUpdate, jsToSql)
    IN  /\ call' = Call("sqlForPartialUpdate", Undef, dataToUpdate, jsToSql, NoFilters)
        /\ UNCHANGED inflight
        /\ outcome' = IF r.error # NoError THEN Threw(r.error) ELSE Returned(r)
        /\ queries' = <<>>
        /\ generated' = <<>>
        /\ UNCHANGED storage

CallGenerateCompanyFiltersSql(opts) ==
    /\ call' = Call("generateCompanyFiltersSql", Undef, <<>>, EmptyObject, Filters(opts))
    /\ UNCHANGED inflight
    /\ outcome' = Returned(generateCompanyFiltersSql(opts))
    /\ queries' = <<>>
    /\ generated' = <<>>
    /\ UNCHANGED storage

CallGenerateJobFiltersSql(opts) ==
    /\ call' = Call("generateJobFiltersSql", Undef, <<>>, EmptyObject, Filters(opts))
    /\ UNCHANGED inflight
    /\ outcome' = Returned(generateJobFiltersSql(opts))
    /\ queries' = <<>>
    /\ generated' = <<>>
    /\ UNCHANGED storage

(***************************************************************************)
(* The storage backend: db.query(sqlText, parameterValues) over            *)
(*   companies(handle PK, name, description, num_employees, logo_url)      *)
(*   jobs(id PK, title, salary, equity, company_handle).                   *)
(* companies and jobs are the sets of rows stored; nextId is the next      *)
(* value of the jobs table's id sequence.                                  *)
(* A statement the backend rejects ends the call with error "DbError".     *)
(***************************************************************************)
Query(sql, params) == [sql |-> sql, params |-> params]

RECURSIVE SplitWords(_, _, _)
\* the words of s, separated by spaces
SplitWords(s, word, acc) ==
    IF s = "" THEN (IF word = "" THEN acc ELSE Append(acc, word))
    ELSE IF Head(s) = " "
         THEN SplitWords(Tail(s), "", IF word = "" THEN acc ELSE Append(acc, word))
         ELSE SplitWords(Tail(s), word \o Head(s), acc)

\* the number n of a placeholder word "$n", or 0 when the word is none
PlaceholderNumber(word) ==
    IF Len(word) < 2 \/ Head(word) # "$" THEN 0
    ELSE LET r == ParseDigits(Tail(word), 10, 0, 0)
         IN  IF r[1] = Len(word) - 1 THEN r[2] ELSE 0

RECURSIVE ParsePredicates(_, _)
\* the predicates of "p1 AND p2 ...": [ok, preds], each pred [col, op, ph]
ParsePredicates(w, acc) ==
    LET isNull == Len(w) >= 4 /\ w[2] = "IS" /\ w[3] = "NOT" /\ w[4] = "NULL"
        isCmp == Len(w) >= 3 /\ w[2] \in {"ILIKE", ">=", "<="}
                    /\ PlaceholderNumber(w[3]) > 0
        used == IF isNull THEN 4 ELSE 3
        pred == IF isNull THEN [col |-> w[1], op |-> "IS NOT NULL", ph |-> 0]
                ELSE [col |-> w[1], op |-> w[2], ph |-> PlaceholderNumber(w[3])]
        rest == SubSeq(w, used + 1, Len(w))
    IN  IF ~(isNull \/ isCmp) THEN [ok |-> FALSE, preds |-> acc]
        ELSE IF rest = <<>> THEN [ok |-> TRUE, preds |-> Append(acc, pred)]
        ELSE IF rest[1] = "AND" THEN ParsePredicates(Tail(rest), Append(acc, pred))
        ELSE [ok |-> FALSE, preds |-> acc]

\* a WHERE clause (or the empty string) parsed
ParseWhere(whereSql) ==
    LET w == SplitWords(whereSql, "", <<>>)
    IN  IF w = <<>> THEN [ok |-> TRUE, preds |-> <<>>]
        ELSE IF w[1] # "WHERE" \/ Len(w) = 1 THEN [ok |-> FALSE, preds |-> <<>>]
        ELSE ParsePredicates(Tail(w), <<>>)

\* a statement binds: its placeholders are exactly $1..$n for the n values supplied
Binds(preds, params) ==
    {preds[i].ph : i \in {j \in 1..Len(preds) : preds[j].ph > 0}} = 1..Len(params)

\* sub occurs in s
Contains(s, sub) ==
    \E i \in 0..(Len(s) - Len(sub)) : SubSeq(s, i + 1, i + Len(sub)) = sub

\* text ILIKE pattern, for the patterns '%...%' the builder produces
ILike(text, pattern) ==
    LET n == Len(pattern)
    IN  IF n >= 2 /\ Head(pattern) = "%" /\ SubSeq(pattern, n, n) = "%"
        THEN Contains(ToLower(text), ToLower(SubSeq(pattern, 2, n - 1)))
        ELSE ToLower(text) = ToLower(pattern)

\* one predicate on one row (a record of column values); NULL compares as false
Holds(pred, row, params) ==
    LET v == row[pred.col]
    IN  CASE pred.op = "IS NOT NULL" -> v.t # "null"
          [] pred.op = "ILIKE" -> v.t = "string" /\ ILike(v.s, JsToString(params[pred.ph]))
          [] pred.op = ">=" -> v.t = "number" /\ v.n >= params[pred.ph].n
          [] pred.op = "<=" -> v.t = "number" /\ v.n <= params[pred.ph].n

\* the statement is well formed for a table with these columns
Accepts(where, columns, params) ==
    /\ where.ok
    /\ Binds(where.preds, params)
    /\ \A i \in 1..Len(where.preds) :
          /\ where.preds[i].col \in columns
          /\ where.preds[i].op \in {">=", "<="} => params[where.preds[i].ph].t = "number"

Alphabet == " 0123456789ABCDEFGHIJKLMNOPQRSTUVWXYZabcdefghijklmnopqrstuvwxyz"

RECURSIVE StrLeq(_, _)
\* a <= b in the order ORDER BY sorts text by
StrLeq(a, b) ==
    IF a = "" THEN TRUE
    ELSE IF b = "" THEN FALSE
    ELSE IF Head(a) = Head(b) THEN StrLeq(Tail(a), Tail(b))
    ELSE IndexOf(Alphabet, Head(a)) < IndexOf(Alphabet, Head(b))

\* the orders in which ORDER BY <col> may return these rows
OrderBy(rows, col) ==
    {r \in [1..Cardinality(rows) -> rows] :
        /\ \A i, j \in DOMAIN r : i # j => r[i] # r[j]
        /\ \A i, j \in DOMAIN r : i < j => StrLeq(r[i][col].s, r[j][col].s)}

CompanyColumns == {"handle", "name", "description", "num_employees", "logo_url"}

JobColumns == {"id", "title", "salary", "equity", "company_handle"}

\* the rows of the two tables
CompanyRows == companies

JobRows == jobs

\* SELECT handle, name, description, num_employees AS "numEmployees", logo_url AS "logoUrl"
CompanyOut(row) ==
    [handle |-> row.handle, name |-> row.name, description |-> row.description,
     numEmployees |-> row.num_employees, logoUrl |-> row.logo_url]

\* SELECT id, title, salary, equity, company_handle AS "companyHandle"
JobOut(row) ==
    [id |-> row.id, title |-> row.title, salary |-> row.salary, equity |-> row.equity,
     companyHandle |-> row.company_handle]

\* the rows of `table` that satisfy every predicate of the parsed WHERE clause
\* a row as the statement's column list returns it
RowOut(columns, row) == IF columns = CompanyColumns THEN CompanyOut(row) ELSE JobOut(row)

Matching(table, where, params) ==
    {row \in table : \A i \in 1..Len(where.preds) : Holds(where.preds[i], row, params)}

(***************************************************************************)
(* models/company.js and models/job.js: findAll                            *)
(***************************************************************************)
SelectCompaniesSql ==
    "SELECT handle, name, description, num_employees AS \"numEmployees\", logo_url AS \"logoUrl\" FROM companies"

SelectJobsSql ==
    "SELECT id, title, salary, equity, company_handle AS \"companyHandle\" FROM jobs"

\* !filters || !Object.keys(filters).length
NoFilterPath(filters) == filters.t = "undefined" \/ DOMAIN filters.o = {}

\* if (v) v = Number.parseInt(v)
ParsedIfTruthy(v) == IF Truthy(v) THEN parseInt(v) ELSE v

\* minEmployees && maxEmployees && minEmployees > maxEmployees
MinAboveMaxMutant(minEmployees, maxEmployees) == FALSE

MinAboveMax(minEmployees, maxEmployees) ==
    Truthy(minEmployees) /\ Truthy(maxEmployees) /\ minEmployees.n > maxEmployees.n

\* Object.keys(badFilters).length, badFilters being the rest of the destructuring
HasBadFiltersMutant(filters, known) == FALSE

HasBadFilters(filters, known) == DOMAIN filters.o \ known # {}

\* Company.findAll up to its filtered query: the error it throws, or the
\* options it hands to the generator
CompanyFindAllChecks(filters) ==
    LET nameLike == Get(filters.o, "nameLike")
        minEmployees == ParsedIfTruthy(Get(filters.o, "minEmployees"))
        maxEmployees == ParsedIfTruthy(Get(filters.o, "maxEmployees"))
    IN  [error |-> IF isNaN(minEmployees) \/ isNaN(maxEmployees) THEN "BadRequestError"
                   ELSE IF MinAboveMax(minEmployees, maxEmployees) THEN "BadRequestError"
                   ELSE IF HasBadFilters(filters, {"nameLike", "minEmployees", "maxEmployees"})
                        THEN "BadRequestError"
                   ELSE NoError,
         opts |-> Options("nameLike", nameLike, "minEmployees", minEmployees,
                          "maxEmployees", maxEmployees)]

HasEquityValueMutant(v) == IF v \in {Str("true"), Str("false")} THEN Bool(TRUE) ELSE v

\* hasEquity after the "true"/"false" strings are turned into booleans
HasEquityValue(v) ==
    IF v = Str("true") THEN Bool(TRUE)
    ELSE IF v = Str("false") THEN Bool(FALSE)
    ELSE v

\* hasEquity !== undefined && hasEquity !== true && hasEquity !== false
BadHasEquityMutant(hasEquity) == FALSE

BadHasEquity(hasEquity) ==
    hasEquity # Undef /\ hasEquity # Bool(TRUE) /\ hasEquity # Bool(FALSE)

JobFindAllChecks(filters) ==
    LET titleLike == Get(filters.o, "titleLike")
        minSalary == ParsedIfTruthy(Get(filters.o, "minSalary"))
        hasEquity == HasEquityValue(Get(filters.o, "hasEquity"))
    IN  [error |-> IF isNaN(minSalary) THEN "BadRequestError"
                   ELSE IF BadHasEquity(hasEquity) THEN "BadRequestError"
                   ELSE IF HasBadFilters(filters, {"titleLike", "minSalary", "hasEquity"})
                        THEN "BadRequestError"
                   ELSE NoError,
         opts |-> Options("titleLike", titleLike, "minSalary", minSalary,
                          "hasEquity", hasEquity)]

\* the filtered SELECT: `<select> ${filtersSql} ORDER BY <col>`
FindAllQueryMutant(selectSql, filtersSql, orderCol) ==
    selectSql \o " WHERE " \o filtersSql \o " ORDER BY " \o orderCol

FindAllQuery(selectSql, filtersSql, orderCol) ==
    selectSql \o " " \o filtersSql \o " ORDER BY " \o orderCol

\* a findAll call's end: `fn` is the generator used, `table` the rows queried
FindAll(op, filters, checks, fn, gen, selectSql, table, columns, orderCol) ==
    /\ call' = Call(op, Undef, <<>>, EmptyObject, filters)
    /\ UNCHANGED inflight
    /\ UNCHANGED storage
    /\ IF NoFilterPath(filters)
       THEN /\ generated' = <<>>
            /\ queries' = <<Query(selectSql \o " ORDER BY " \o orderCol, <<>>)>>
            /\ \E rows \in OrderBy(table, orderCol) :
                  outcome' = Returned([i \in DOMAIN rows |-> RowOut(columns, rows[i])])
       ELSE IF checks.error # NoError
       THEN /\ generated' = <<>>
            /\ queries' = <<>>
            /\ outcome' = Threw(checks.error)
       ELSE LET where == ParseWhere(gen.filtersSql)
            IN  /\ generated' = <<[fn |-> fn, arg |-> checks.opts, ret |-> gen]>>
                /\ queries' = <<Query(FindAllQuery(selectSql, gen.filtersSql, orderCol),
                                      gen.values)>>
                /\ IF ~Accepts(where, columns, gen.values)
                   THEN outcome' = Threw("DbError")
                   ELSE \E rows \in OrderBy(Matching(table, where, gen.values), orderCol) :
                           outcome' = Returned([i \in DOMAIN rows |-> RowOut(columns, rows[i])])

CompanyFindAll(filters) ==
    LET checks == CompanyFindAllChecks(filters)
    IN  FindAll("Company.findAll", filters, checks, "generateCompanyFiltersSql",
                generateCompanyFiltersSql(checks.opts), SelectCompaniesSql,
                CompanyRows, CompanyColumns, "name")

JobFindAll(filters) ==
    LET checks == JobFindAllChecks(filters)
    IN  FindAll("Job.findAll", filters, checks, "generateJobFiltersSql",
                generateJobFiltersSql(checks.opts), SelectJobsSql,
                JobRows, JobColumns, "title")

(***************************************************************************)
(* Inputs of findAll: what a query string or a direct caller can supply.   *)
(***************************************************************************)
NumericInputs ==
    {Str(ToString(i)) : i \in 0..MaxNum} \cup {Num(i) : i \in 0..MaxNum}
        \cup {Str(""), Str("abc"), Str("2x"), Null}

HasEquityInputs ==
    {Str("true"), Str("false"), Bool(TRUE), Bool(FALSE),
     Str("yes"), Str("TRUE"), Str(""), Num(1), Null}

OptionalInput(values) == {Undef} \cup values

\* an object with up to four keys; a key whose value is Undef is absent
Object4(k1, v1, k2, v2, k3, v3, k4, v4) ==
    LET present == {x \in {<<k1, v1>>, <<k2, v2>>, <<k3, v3>>, <<k4, v4>>} : x[2] # Undef}
    IN  [k \in {x[1] : x \in present} |-> (CHOOSE x \in present : x[1] = k)[2]]

CompanyFilterInputs ==
    {NoFilters} \cup
    {Filters(Object4("nameLike", a, "minEmployees", b, "maxEmployees", c, "color", d)) :
        a \in OptionalInput({Str(""), Str("net")}),
        b \in OptionalInput(NumericInputs),
        c \in OptionalInput(NumericInputs),
        d \in OptionalInput({Str("red")})}

JobFilterInputs ==
    {NoFilters} \cup
    {Filters(Object4("titleLike", a, "minSalary", b, "hasEquity", c, "badFilter", d)) :
        a \in OptionalInput({Str(""), Str("j")}),
        b \in OptionalInput(NumericInputs),
        c \in OptionalInput(HasEquityInputs),
        d \in OptionalInput({Str("Bad Filter")})}

(***************************************************************************)
(* A stored state the builder and findAll are exercised on.                *)
(***************************************************************************)
CompanyRow(handle, name, description, numEmployees, logoUrl) ==
    [handle |-> handle, name |-> name, description |-> description,
     num_employees |-> numEmployees, logo_url |-> logoUrl]

JobRow(id, title, salary, equity, companyHandle) ==
    [id |-> id, title |-> title, salary |-> salary, equity |-> equity,
     company_handle |-> companyHandle]

FixtureCompanies ==
    {CompanyRow(Str("c1"), Str("Acme"), Str("Desc1"), Num(0), Null),
     CompanyRow(Str("c2"), Str("Initech"), Str("Desc2"), Num(2), Str("http://c2.img")),
     CompanyRow(Str("c3"), Str("internet co"), Str("Desc3"), Null, Null)}

FixtureJobs ==
    {JobRow(Num(1), Str("j1"), Num(0), Str("0.65"), Str("c1")),
     JobRow(Num(2), Str("J2"), Num(2), Str("0.55"), Str("c1")),
     JobRow(Num(3), Str("j3"), Num(1), Null, Str("c1"))}

NoCall == Call("none", Undef, <<>>, EmptyObject, NoFilters)

SqlInit ==
    /\ companies = FixtureCompanies
    /\ jobs = FixtureJobs
    /\ nextId = 4
    /\ call = NoCall
    /\ outcome = Returned(Undef)
    /\ queries = <<>>
    /\ generated = <<>>
    /\ inflight = AllIdle

\* The builder and findAll keep no state between calls and leave the storage
\* as it is, so a call's result does not depend on the calls before it: each
\* behaviour makes one call, with any input, on the stored state above.
SqlNext ==
    \/ \E d \in Payloads, m \in NameMappings : call = NoCall /\ CallSqlForPartialUpdate(d, m)
    \/ \E o \in CompanyOptions : call = NoCall /\ CallGenerateCompanyFiltersSql(o)
    \/ \E o \in JobOptions : call = NoCall /\ CallGenerateJobFiltersSql(o)
    \/ \E f \in CompanyFilterInputs : call = NoCall /\ CompanyFindAll(f)
    \/ \E f \in JobFilterInputs : call = NoCall /\ JobFindAll(f)

SqlSpec == SqlInit /\ [][SqlNext]_vars

(***************************************************************************)
(* The storage backend, continued: INSERT, UPDATE, DELETE.                 *)
(***************************************************************************)
\* the positions at which sep occurs in s
Occurrences(s, sep) ==
    {i \in 1..(Len(s) - Len(sep) + 1) : SubSeq(s, i, i + Len(sep) - 1) = sep}

\* String.prototype.split on a separator, as the backend's parser splits a list
SplitBy(s, sep) ==
    LET at == Occurrences(s, sep)
        nth(n) == CHOOSE i \in at : Cardinality({j \in at : j < i}) = n - 1
    IN  [n \in 1..(Cardinality(at) + 1) |->
            SubSeq(s, IF n = 1 THEN 1 ELSE nth(n - 1) + Len(sep),
                      IF n = Cardinality(at) + 1 THEN Len(s) ELSE nth(n) - 1)]

\* one assignment "<col>"=$n of a SET list: [ok, col, ph]
ParseAssignment(a) ==
    LET bad == [ok |-> FALSE, col |-> "", ph |-> 0]
        quotes == Occurrences(a, "\"")
        q == CHOOSE i \in quotes \ {1} : \A j \in quotes \ {1} : i <= j
        ph == PlaceholderNumber(SubSeq(a, q + 2, Len(a)))
    IN  IF Len(a) < 5 \/ 1 \notin quotes \/ quotes = {1} THEN bad
        ELSE IF q + 1 > Len(a) \/ SubSeq(a, q + 1, q + 1) # "=" \/ ph = 0 THEN bad
        ELSE [ok |-> TRUE, col |-> SubSeq(a, 2, q - 1), ph |-> ph]

\* the assignments of a SET list, in order
ParseSetCols(setCols) ==
    CHOOSE sets \in {[i \in 1..Len(parts) |-> ParseAssignment(parts[i])] :
                        parts \in {SplitBy(setCols, ", ")}} : TRUE

IntegerColumns == {"id", "salary", "num_employees"}

\* the primary keys, which are never null
KeyColumns == {"handle", "id"}

\* a value the column can store
Storable(col, v) ==
    /\ IF col \in IntegerColumns THEN v.t \in {"number", "null"}
       ELSE v.t \in {"string", "null"}
    /\ col \in KeyColumns => v.t # "null"

\* an UPDATE whose SET list parsed to `sets` and whose key placeholder is $k
ExecParsed(table, columns, keyCol, sets, k, params) ==
    LET wellFormed ==
            /\ \A i \in 1..Len(sets) : sets[i].ok /\ sets[i].col \in columns
            /\ \A i, j \in 1..Len(sets) : i # j => sets[i].col # sets[j].col
            /\ {sets[i].ph : i \in 1..Len(sets)} \cup {k} = 1..Len(params)
            /\ \A i \in 1..Len(sets) : Storable(sets[i].col, params[sets[i].ph])
        changed(row) ==
            [c \in columns |->
                IF \E i \in 1..Len(sets) : sets[i].col = c
                THEN params[sets[CHOOSE i \in 1..Len(sets) : sets[i].col = c].ph]
                ELSE row[c]]
        hit == {row \in table : row[keyCol] = params[k]}
        after == (table \ hit) \cup {changed(row) : row \in hit}
        unique == \A r1, r2 \in after : r1[keyCol] = r2[keyCol] => r1 = r2
    IN  IF ~wellFormed \/ ~unique \/ Cardinality(after) # Cardinality(table)
        THEN [error |-> "DbError", table |-> table, rows |-> {}]
        ELSE [error |-> NoError, table |-> after, rows |-> {changed(row) : row \in hit}]

\* UPDATE <table> SET <setCols> WHERE <keyCol> = <keyPh> RETURNING ...
\* [error, table, rows]: the table afterwards and the rows it changed
ExecUpdate(table, columns, keyCol, setCols, keyPh, params) ==
    CHOOSE result \in {ExecParsed(table, columns, keyCol, sets, k, params) :
                          sets \in {ParseSetCols(setCols)},
                          k \in {PlaceholderNumber(keyPh)}} : TRUE

\* DELETE FROM <table> WHERE <keyCol> = $1 RETURNING <keyCol>
ExecDelete(table, keyCol, params) ==
    LET hit == {row \in table : row[keyCol] = params[1]}
    IN  [error |-> NoError, table |-> table \ hit, rows |-> hit]

\* INSERT INTO <table> ... VALUES (...) of one row; the primary key is unique
ExecInsert(table, keyCol, row) ==
    IF \E r \in table : r[keyCol] = row[keyCol]
    THEN [error |-> "DbError", table |-> table, rows |-> {}]
    ELSE [error |-> NoError, table |-> table \cup {row}, rows |-> {row}]

\* the orders in which a statement without ORDER BY may return these rows
AnyOrder(rows) ==
    {r \in [1..Cardinality(rows) -> rows] : \A i, j \in DOMAIN r : i # j => r[i] # r[j]}

\* undefined is bound as NULL
Bound(v) == IF v = Undef THEN Null ELSE v

(***************************************************************************)
(* models/company.js                                                       *)
(***************************************************************************)
\* obj.key for an object given by its entries: undefined when absent
Field(obj, key) ==
    IF \E i \in 1..Len(obj) : obj[i].k = key
    THEN obj[CHOOSE i \in 1..Len(obj) : obj[i].k = key].v
    ELSE Undef

SelectHandleSql == "SELECT handle FROM companies WHERE handle = $1"

InsertCompanySql ==
    "INSERT INTO companies (handle, name, description, num_employees, logo_url) VALUES ($1, $2, $3, $4, $5) RETURNING handle, name, description, num_employees AS \"numEmployees\", logo_url AS \"logoUrl\""

\* if (duplicateCheck.rows[0]) throw new BadRequestError(...)
DuplicateCheckMutant(handle) == FALSE

DuplicateCheck(handle) == \E row \in companies : row.handle = handle

CompanyCreate(data) ==
    LET handle == Field(data, "handle")
        values == <<handle, Field(data, "name"), Field(data, "description"),
                    Field(data, "numEmployees"), Field(data, "logoUrl")>>
        row == CompanyRow(Bound(values[1]), Bound(values[2]), Bound(values[3]),
                          Bound(values[4]), Bound(values[5]))
        ins == ExecInsert(companies, "handle", row)
    IN  /\ call' = Call("Company.create", handle, data, EmptyObject, NoFilters)
        /\ UNCHANGED inflight
        /\ generated' = <<>>
        /\ IF DuplicateCheck(handle)
           THEN /\ queries' = <<Query(SelectHandleSql, <<handle>>)>>
                /\ outcome' = Threw("BadRequestError")
                /\ UNCHANGED storage
           ELSE /\ queries' = <<Query(SelectHandleSql, <<handle>>),
                                Query(InsertCompanySql, values)>>
                /\ outcome' = IF ins.error # NoError THEN Threw(ins.error)
                              ELSE Returned(CompanyOut(row))
                /\ companies' = ins.table
                /\ UNCHANGED <<jobs, nextId>>

SelectCompanyWithJobsSql ==
    "SELECT handle, name, description, num_employees AS \"numEmployees\", logo_url AS \"logoUrl\", id, title, salary, equity, company_handle AS \"companyHandle\" FROM companies c LEFT JOIN jobs j ON c.handle = j.company_handle WHERE handle = $1"

NoJob == JobRow(Null, Null, Null, Null, Null)

\* companies c LEFT JOIN jobs j ON c.handle = j.company_handle WHERE handle = $1
LeftJoin(handle) ==
    UNION {LET js == {j \in jobs : j.company_handle = c.handle}
           IN  {[c |-> c, j |-> j] : j \in (IF js = {} THEN {NoJob} ELSE js)}
           : c \in {c \in companies : c.handle = handle}}

CompanyGet(handle) ==
    /\ call' = Call("Company.get", handle, <<>>, EmptyObject, NoFilters)
    /\ UNCHANGED inflight
    /\ generated' = <<>>
    /\ queries' = <<Query(SelectCompanyWithJobsSql, <<handle>>)>>
    /\ UNCHANGED storage
    /\ \E rows \in AnyOrder(LeftJoin(handle)) :
          outcome' =
            IF Len(rows) = 0 THEN Threw("NotFoundError")
            ELSE LET withId == SelectSeq(rows, LAMBDA r : Truthy(r.j.id))
                 IN  Returned([handle |-> handle, name |-> rows[1].c.name,
                               description |-> rows[1].c.description,
                               numEmployees |-> rows[1].c.num_employees,
                               logoUrl |-> rows[1].c.logo_url,
                               jobs |-> [i \in 1..Len(withId) |-> JobOut(withId[i].j)]])

CompanyJsToSql == [numEmployees |-> "num_employees", logoUrl |-> "logo_url"]

UpdateCompanySql(setCols, handleVarIdx) ==
    "UPDATE companies SET " \o setCols \o " WHERE handle = " \o handleVarIdx
        \o " RETURNING handle, name, description, num_employees AS \"numEmployees\", logo_url AS \"logoUrl\""

UpdateJobSql(setCols, idVarIdx) ==
    "UPDATE jobs SET " \o setCols \o " WHERE id = " \o idVarIdx
        \o " RETURNING id, title, salary, equity, company_handle AS \"companyHandle\""

\* querySql of the update of the table with these columns
UpdateSql(columns, setCols, varIdx) ==
    IF columns = CompanyColumns THEN UpdateCompanySql(setCols, varIdx)
    ELSE UpdateJobSql(setCols, varIdx)

VarIdxMutant(values) == "$" \o ToString(Len(values))

\* "$" + (values.length + 1)
VarIdx(values) == "$" \o ToString(Len(values) + 1)

\* db.query(querySql, [...values, key]) of an update whose builder call returned
\* `built`: [error, table, rows]; nothing is executed when the builder threw
UpdateQuery(table, columns, keyCol, built, key) ==
    IF built.error # NoError THEN [error |-> NoError, table |-> table, rows |-> {}]
    ELSE ExecUpdate(table, columns, keyCol, built.setCols, VarIdx(built.values),
                    built.values \o <<key>>)

\* an update's end, for either table: `built` is what sqlForPartialUpdate
\* returned (or threw), `result` the result of the UPDATE statement
Update(op, key, data, jsToSql, columns, built, result) ==
    /\ call' = Call(op, key, data, jsToSql, NoFilters)
    /\ UNCHANGED inflight
    /\ generated' = <<>>
    /\ IF built.error # NoError
       THEN /\ queries' = <<>>
            /\ outcome' = Threw(built.error)
       ELSE /\ queries' = <<Query(UpdateSql(columns, built.setCols, VarIdx(built.values)),
                                  built.values \o <<key>>)>>
            /\ outcome' = IF result.error # NoError THEN Threw(result.error)
                          ELSE IF result.rows = {} THEN Threw("NotFoundError")
                          ELSE \* result.rows[0]
                               Returned(RowOut(columns, CHOOSE row \in result.rows : TRUE))

CompanyUpdate(handle, data) ==
    \E built \in {sqlForPartialUpdate(data, CompanyJsToSql)} :
        \E result \in {UpdateQuery(companies, CompanyColumns, "handle", built, handle)} :
            /\ Update("Company.update", handle, data, CompanyJsToSql, CompanyColumns,
                      built, result)
            /\ companies' = result.table
            /\ UNCHANGED <<jobs, nextId>>

DeleteCompanySql == "DELETE FROM companies WHERE handle = $1 RETURNING handle"

\* if (!company) throw new NotFoundError(...), company being result.rows[0]
NoRowDeletedMutant(rows) == FALSE

NoRowDeleted(rows) == rows = {}

\* a remove's end, for either table
Remove(op, key, sql, table, keyCol) ==
    LET del == ExecDelete(table, keyCol, <<key>>)
    IN  /\ call' = Call(op, key, <<>>, EmptyObject, NoFilters)
        /\ UNCHANGED inflight
        /\ generated' = <<>>
        /\ queries' = <<Query(sql, <<key>>)>>
        /\ outcome' = IF NoRowDeleted(del.rows) THEN Threw("NotFoundError")
                      ELSE Returned(Undef)

CompanyRemove(handle) ==
    /\ Remove("Company.remove", handle, DeleteCompanySql, companies, "handle")
    /\ companies' = ExecDelete(companies, "handle", <<handle>>).table
    /\ UNCHANGED <<jobs, nextId>>

(***************************************************************************)
(* models/job.js                                                           *)
(***************************************************************************)
InsertJobSql ==
    "INSERT INTO jobs (title, salary, equity, company_handle) VALUES ($1, $2, $3, $4) RETURNING id, title, salary, equity, company_handle AS \"companyHandle\""

\* if (!companyExistsCheck.rows[0]) throw new BadRequestError(...)
CompanyExistsCheckMutant(companyHandle) == TRUE

CompanyExistsCheck(companyHandle) == \E row \in companies : row.handle = companyHandle

JobCreate(data) ==
    LET companyHandle == Field(data, "companyHandle")
        values == <<Field(data, "title"), Field(data, "salary"), Field(data, "equity"),
                    companyHandle>>
        row == JobRow(Num(nextId), Bound(values[1]), Bound(values[2]), Bound(values[3]),
                      Bound(values[4]))
        ins == ExecInsert(jobs, "id", row)
    IN  /\ call' = Call("Job.create", Undef, data, EmptyObject, NoFilters)
        /\ UNCHANGED inflight
        /\ generated' = <<>>
        /\ IF ~CompanyExistsCheck(companyHandle)
           THEN /\ queries' = <<Query(SelectHandleSql, <<companyHandle>>)>>
                /\ outcome' = Threw("BadRequestError")
                /\ UNCHANGED storage
           ELSE /\ nextId <= MaxJobs
                /\ queries' = <<Query(SelectHandleSql, <<companyHandle>>),
                                Query(InsertJobSql, values)>>
                /\ outcome' = IF ins.error # NoError THEN Threw(ins.error)
                              ELSE Returned(JobOut(row))
                /\ jobs' = ins.table
                /\ nextId' = nextId + 1
                /\ UNCHANGED companies

SelectJobSql ==
    "SELECT id, title, salary, equity, company_handle AS \"companyHandle\" FROM jobs WHERE id = $1"

JobGet(id) ==
    LET found == {row \in jobs : row.id = id}
    IN  /\ call' = Call("Job.get", id, <<>>, EmptyObject, NoFilters)
        /\ UNCHANGED inflight
        /\ generated' = <<>>
        /\ queries' = <<Query(SelectJobSql, <<id>>)>>
        /\ UNCHANGED storage
        /\ outcome' = IF found = {} THEN Threw("NotFoundError")
                      ELSE Returned(JobOut(CHOOSE row \in found : TRUE))

JobJsToSql == EmptyObject

JobUpdate(id, data) ==
    \E built \in {sqlForPartialUpdate(data, JobJsToSql)} :
        \E result \in {UpdateQuery(jobs, JobColumns, "id", built, id)} :
            /\ Update("Job.update", id, data, JobJsToSql, JobColumns, built, result)
            /\ jobs' = result.table
            /\ UNCHANGED <<companies, nextId>>

DeleteJobSql == "DELETE FROM jobs WHERE id = $1 RETURNING id"

JobRemove(id) ==
    /\ Remove("Job.remove", id, DeleteJobSql, jobs, "id")
    /\ jobs' = ExecDelete(jobs, "id", <<id>>).table
    /\ UNCHANGED <<companies, nextId>>

(***************************************************************************)
(* The repositories over an initially empty store: any sequence of calls.  *)
(***************************************************************************)
Handles == {Str("c1"), Str("c2")}

JobIds == {Num(i) : i \in 1..MaxJobs}

Entry(k, v) == [k |-> k, v |-> v]

NewCompanies ==
    {<<Entry("handle", h), Entry("name", Str("Acme")), Entry("description", Str("Desc")),
       Entry("numEmployees", Num(1)), Entry("logoUrl", Null)>> : h \in Handles}

NewJobs ==
    {<<Entry("title", Str("j")), Entry("salary", Num(1)), Entry("equity", Str("0.5")),
       Entry("companyHandle", h)>> : h \in Handles}

\* payloads of recognized fields, and payloads that name the key itself
CompanyPayloads ==
    Objects({Entry("numEmployees", Null)}, MaxKeys)
        \cup {<<Entry("handle", Str("c1"))>>}

\* payloads of recognized fields, and payloads that name the id or the company
JobPayloads ==
    {<<>>, <<Entry("title", Str("New")), Entry("salary", Null)>>}
        \cup {<<Entry("id", Num(0))>>}
        \cup {<<Entry(k, Str("c2"))>> : k \in {"companyHandle", "company_handle"}}

Init ==
    /\ companies = {}
    /\ jobs = {}
    /\ nextId = 1
    /\ call = NoCall
    /\ outcome = Returned(Undef)
    /\ queries = <<>>
    /\ generated = <<>>
    /\ inflight = AllIdle

Next ==
    \/ \E d \in NewCompanies : CompanyCreate(d)
    \/ \E h \in Handles : CompanyGet(h)
    \/ \E h \in Handles, d \in CompanyPayloads : CompanyUpdate(h, d)
    \/ \E h \in Handles : CompanyRemove(h)
    \/ \E d \in NewJobs : JobCreate(d)
    \/ \E i \in JobIds : JobGet(i)
    \/ \E i \in JobIds, d \in JobPayloads : JobUpdate(i, d)
    \/ \E i \in JobIds : JobRemove(i)

Spec == Init /\ [][Next]_vars

(***************************************************************************)
(* findAll over every stored set of rows: one call per behaviour, as in    *)
(* SqlSpec, on any subset of a pool of rows.                               *)
(***************************************************************************)
\* the jobs of FixtureJobs and a job without salary at another company
JobPool ==
    FixtureJobs \cup {JobRow(Num(4), Str("k4"), Null, Str("0.1"), Str("c2"))}

JobFindInputs ==
    {NoFilters} \cup
    {Filters(Object4("titleLike", a, "minSalary", b, "hasEquity", c, "badFilter", Undef)) :
        a \in OptionalInput({Str("j")}),
        b \in OptionalInput(NumericInputs),
        c \in OptionalInput({Str("true"), Str("false"), Bool(TRUE), Bool(FALSE)})}

CompanyFindInputs ==
    {NoFilters} \cup
    {Filters(Object4("nameLike", a, "minEmployees", b, "maxEmployees", c, "color", Undef)) :
        a \in OptionalInput({Str("net")}),
        b \in OptionalInput({Str("0"), Str("1")}),
        c \in OptionalInput({Str("0"), Str("2")})}

FindInit ==
    /\ \/ companies = FixtureCompanies /\ jobs \in SUBSET JobPool
       \/ companies \in SUBSET FixtureCompanies /\ jobs = FixtureJobs
    /\ nextId = 5
    /\ call = NoCall
    /\ outcome = Returned(Undef)
    /\ queries = <<>>
    /\ generated = <<>>
    /\ inflight = AllIdle

FindNext ==
    \/ \E f \in CompanyFindInputs : call = NoCall /\ CompanyFindAll(f)
    \/ \E f \in JobFindInputs : call = NoCall /\ JobFindAll(f)

FindSpec == FindInit /\ [][FindNext]_vars

(***************************************************************************)
(* Concurrent requests: each request makes one call, and a call's queries  *)
(* are separate statements on the storage (no transaction), so the queries *)
(* of different calls interleave. A step is one db.query together with the *)
(* code of its call that runs until the next await.                        *)
(***************************************************************************)
\* the values create binds to its INSERT
CompanyValues(data) ==
    <<Field(data, "handle"), Field(data, "name"), Field(data, "description"),
      Field(data, "numEmployees"), Field(data, "logoUrl")>>

JobValues(data) ==
    <<Field(data, "title"), Field(data, "salary"), Field(data, "equity"),
      Field(data, "companyHandle")>>

\* request p's call moves on to `next`; the last call recorded is p's
Step(p, next, query) ==
    /\ inflight[p].pc # "done"
    /\ inflight' = [inflight EXCEPT ![p] = next]
    /\ call' = Call(next.op, next.key, next.data, EmptyObject, NoFilters)
    /\ outcome' = next.outcome
    /\ queries' = <<query>>
    /\ generated' = <<>>

\* Company.create up to its second await: the duplicate check
CompanyCreateCheck(p, data) ==
    \E handle \in {Field(data, "handle")} :
        /\ inflight[p].pc = "idle"
        /\ UNCHANGED storage
        /\ Step(p, IF DuplicateCheck(handle)
                   THEN InFlight("Company.create", handle, data, "done",
                                 Threw("BadRequestError"))
                   ELSE InFlight("Company.create", handle, data, "insert", Returned(Undef)),
                Query(SelectHandleSql, <<handle>>))

\* Company.create from its second query on: the INSERT
CompanyCreateInsert(p) ==
    \E cur \in {inflight[p]} :
      \E values \in {CompanyValues(cur.data)} :
        \E row \in {CompanyRow(Bound(values[1]), Bound(values[2]), Bound(values[3]),
                               Bound(values[4]), Bound(values[5]))} :
          \E ins \in {ExecInsert(companies, "handle", row)} :
            /\ cur.op = "Company.create"
            /\ cur.pc = "insert"
            /\ companies' = ins.table
            /\ UNCHANGED <<jobs, nextId>>
            /\ Step(p, InFlight(cur.op, cur.key, cur.data, "done",
                                IF ins.error # NoError THEN Threw(ins.error)
                                ELSE Returned(CompanyOut(row))),
                    Query(InsertCompanySql, values))

\* Job.create up to its second await: the existence check
JobCreateCheck(p, data) ==
    \E companyHandle \in {Field(data, "companyHandle")} :
        /\ inflight[p].pc = "idle"
        /\ UNCHANGED storage
        /\ Step(p, IF ~CompanyExistsCheck(companyHandle)
                   THEN InFlight("Job.create", companyHandle, data, "done",
                                 Threw("BadRequestError"))
                   ELSE InFlight("Job.create", companyHandle, data, "insert", Returned(Undef)),
                Query(SelectHandleSql, <<companyHandle>>))

\* Job.create from its second query on: the INSERT
JobCreateInsert(p) ==
    \E cur \in {inflight[p]} :
      \E values \in {JobValues(cur.data)} :
        \E row \in {JobRow(Num(nextId), Bound(values[1]), Bound(values[2]),
                           Bound(values[3]), Bound(values[4]))} :
          \E ins \in {ExecInsert(jobs, "id", row)} :
            /\ cur.op = "Job.create"
            /\ cur.pc = "insert"
            /\ nextId <= MaxJobs
            /\ jobs' = ins.table
            /\ nextId' = nextId + 1
            /\ UNCHANGED companies
            /\ Step(p, InFlight(cur.op, cur.key, cur.data, "done",
                                IF ins.error # NoError THEN Threw(ins.error)
                                ELSE Returned(JobOut(row))),
                    Query(InsertJobSql, values))

\* Company.remove: its one query
CompanyRemoveQuery(p, handle) ==
    \E del \in {ExecDelete(companies, "handle", <<handle>>)} :
        /\ inflight[p].pc = "idle"
        /\ companies' = del.table
        /\ UNCHANGED <<jobs, nextId>>
        /\ Step(p, InFlight("Company.remove", handle, <<>>, "done",
                            IF NoRowDeleted(del.rows) THEN Threw("NotFoundError")
                            ELSE Returned(Undef)),
                Query(DeleteCompanySql, <<handle>>))

ConcNext ==
    \/ \E p \in Procs, d \in NewCompanies : CompanyCreateCheck(p, d)
    \/ \E p \in Procs : CompanyCreateInsert(p)
    \/ \E p \in Procs, d \in NewJobs : JobCreateCheck(p, d)
    \/ \E p \in Procs : JobCreateInsert(p)
    \/ \E p \in Procs, h \in Handles : CompanyRemoveQuery(p, h)

ConcSpec == Init /\ [][ConcNext]_vars

(***************************************************************************)
(* The SQL text of the filter generators and of update, for any input: one *)
(* call per behaviour on the stored fixture, the update payloads having    *)
(* any keys a caller can send.                                             *)
(***************************************************************************)
TextCompanyPayloads ==
    Objects(Entries({"name", "handle"}, {Str("New"), Str("c9")})
                \cup Entries({"numEmployees"}, {Num(1), Null}), MaxKeys)

TextJobPayloads ==
    Objects(Entries({"title", "company_handle"}, {Str("New"), Str("c9")})
                \cup Entries({"salary", "id"}, {Num(9), Null}), MaxKeys)

TextNext ==
    \/ \E o \in CompanyOptions : call = NoCall /\ CallGenerateCompanyFiltersSql(o)
    \/ \E o \in JobOptions : call = NoCall /\ CallGenerateJobFiltersSql(o)
    \/ \E h \in Handles, d \in TextCompanyPayloads : call = NoCall /\ CompanyUpdate(h, d)
    \/ \E i \in JobIds, d \in TextJobPayloads : call = NoCall /\ JobUpdate(i, d)

TextSpec == SqlInit /\ [][TextNext]_vars

(***************************************************************************)
(* Properties of the SQL builder and of findAll's validation (SqlSpec).    *)
(***************************************************************************)
IsFindAll == call.op \in {"Company.findAll", "Job.findAll"}

RECURSIVE ExpectedSetCols(_, _, _)
\* assignments i..N of payload d under name mapping m, comma-joined
ExpectedSetCols(d, m, i) ==
    LET col == IF d[i].k \in DOMAIN m THEN m[d[i].k] ELSE d[i].k
        assignment == "\"" \o col \o "\"=$" \o ToString(i)
    IN  IF i = Len(d) THEN assignment
        ELSE assignment \o ", " \o ExpectedSetCols(d, m, i + 1)

\* C1: for a non-empty field map D and a name mapping M, sqlForPartialUpdate
\* returns setCols = the assignments "<col_i>"=$i joined by ", ", i = 1..N in key
\* order, col_i = M[k_i] when k_i is in M and k_i otherwise, and values = D's
\* values in key order.
C1_PartialUpdateFragment ==
    (call.op = "sqlForPartialUpdate" /\ Len(call.data) > 0) =>
        /\ outcome.error = NoError
        /\ outcome.ret.setCols = ExpectedSetCols(call.data, call.jsToSql, 1)
        /\ Len(outcome.ret.values) = Len(call.data)
        /\ \A i \in 1..Len(call.data) : outcome.ret.values[i] = call.data[i].v

C1_Witness ==
    /\ call.op = "sqlForPartialUpdate"
    /\ Len(call.data) = 2
    /\ call.data[1].k \notin DOMAIN call.jsToSql
    /\ call.data[2].k \in DOMAIN call.jsToSql
    /\ outcome.error = NoError
    /\ outcome.ret.setCols = "\"name\"=$1, \"num_employees\"=$2"

\* the predicates the claim expects for the filters present in record o, in the
\* fixed order nameLike, minEmployees, maxEmployees, numbered by position
ExpectedCompanyFilters(o) ==
    LET order == <<"nameLike", "minEmployees", "maxEmployees">>
        text == [nameLike |-> "name ILIKE $", minEmployees |-> "num_employees >= $",
                 maxEmployees |-> "num_employees <= $"]
        present == SelectSeq(order, LAMBDA k : k \in DOMAIN o)
        preds == [i \in 1..Len(present) |-> text[present[i]] \o ToString(i)]
        values == [i \in 1..Len(present) |->
                      IF present[i] = "nameLike" THEN Str("%" \o o[present[i]].s \o "%")
                      ELSE o[present[i]]]
    IN  [filtersSql |-> IF Len(present) = 0 THEN "" ELSE "WHERE " \o Join(preds, " AND "),
         values |-> values]

\* C3: for every options record over {nameLike, minEmployees, maxEmployees}, each
\* key absent or present with a valid value (a non-empty pattern, an integer >= 0,
\* 0 included), generateCompanyFiltersSql returns one predicate per present filter
\* in the fixed order, AND-joined, numbered by position among the applied
\* filters, and one value per predicate in the same order.
C3_OnePredicatePerPresentFilter ==
    (/\ call.op = "generateCompanyFiltersSql"
     /\ Get(call.filters.o, "nameLike") # Str("")) =>
        outcome.ret = ExpectedCompanyFilters(call.filters.o)

RECURSIVE PlaceholdersOf(_)
\* the numbers of the placeholders $n of a fragment, left to right
PlaceholdersOf(sql) ==
    IF sql = "" THEN <<>>
    ELSE IF Head(sql) = "$"
         THEN <<ParseDigits(Tail(sql), 10, 0, 0)[2]>> \o PlaceholdersOf(Tail(sql))
         ELSE PlaceholdersOf(Tail(sql))

\* C4: generateJobFiltersSql adds 'equity IS NOT NULL' exactly when hasEquity is
\* true; that predicate adds no value; the fragment's placeholders are exactly
\* $1..$n, left to right, n being the length of the returned value list.
C4_HasEquityAddsNoParameter ==
    call.op = "generateJobFiltersSql" =>
        LET o == call.filters.o
            withoutEquity == [k \in DOMAIN o \ {"hasEquity"} |-> o[k]]
        IN  /\ Contains(outcome.ret.filtersSql, "equity IS NOT NULL")
                <=> Get(o, "hasEquity") = Bool(TRUE)
            /\ outcome.ret.values = generateJobFiltersSql(withoutEquity).values
            /\ PlaceholdersOf(outcome.ret.filtersSql)
                = [i \in 1..Len(outcome.ret.values) |-> i]

C4_Witness ==
    /\ call.op = "generateJobFiltersSql"
    /\ Get(call.filters.o, "hasEquity") = Bool(TRUE)
    /\ outcome.ret.filtersSql = "WHERE title ILIKE $1 AND salary >= $2 AND equity IS NOT NULL"
    /\ Len(outcome.ret.values) = 2

\* C5: with no filter supplied both generators return ("", []); and a findAll
\* query contains WHERE only together with a non-empty fragment from the
\* generator (never WHERE without a predicate).
C5_NoFilterNoWhere ==
    /\ (call.op \in {"generateCompanyFiltersSql", "generateJobFiltersSql"}
            /\ DOMAIN call.filters.o = {}) =>
          (outcome.ret.filtersSql = "" /\ outcome.ret.values = <<>>)
    /\ IsFindAll =>
          \A i \in 1..Len(queries) :
              Contains(queries[i].sql, "WHERE") =>
                  /\ Len(generated) = 1
                  /\ generated[1].ret.filtersSql # ""
                  /\ ParseWhere(generated[1].ret.filtersSql).ok
                  /\ Len(ParseWhere(generated[1].ret.filtersSql).preds) > 0

C5_Witness ==
    /\ IsFindAll
    /\ Len(generated) = 1
    /\ generated[1].ret.filtersSql = ""
    /\ generated[1].ret.values = <<>>
    /\ Len(queries) = 1
    /\ ~Contains(queries[1].sql, "WHERE")
    /\ outcome.error = NoError

\* a supplied value that parseInt turns into an integer
ParsesToInteger(v) == v.t \in {"string", "number"} /\ parseInt(v).t = "number"

\* C6: Company.findAll raises ValidationError whenever minEmployees and
\* maxEmployees both parse to integers with minEmployees > maxEmployees (zero
\* included), before the generator is called or a query is issued.
C6_MinAboveMaxRejected ==
    LET lo == Get(call.filters.o, "minEmployees")
        hi == Get(call.filters.o, "maxEmployees")
    IN  (/\ call.op = "Company.findAll"
         /\ ParsesToInteger(lo) /\ ParsesToInteger(hi)
         /\ parseInt(lo).n > parseInt(hi).n) =>
            (outcome.error = "BadRequestError" /\ generated = <<>> /\ queries = <<>>)

\* C7: findAll raises ValidationError for every non-empty filter record with a
\* key outside the recognized set, whatever else it holds, and issues no query.
C7_UnknownFilterRejected ==
    LET known == IF call.op = "Company.findAll"
                 THEN {"nameLike", "minEmployees", "maxEmployees"}
                 ELSE {"titleLike", "minSalary", "hasEquity"}
    IN  (IsFindAll /\ DOMAIN call.filters.o \ known # {}) =>
            (outcome.error = "BadRequestError" /\ queries = <<>>)

C7_Witness ==
    /\ call.op = "Job.findAll"
    /\ call.filters.o = [titleLike |-> Str("j"), minSalary |-> Str("1"),
                         hasEquity |-> Str("true"), badFilter |-> Str("Bad Filter")]
    /\ outcome.error = "BadRequestError"
    /\ queries = <<>>

RECURSIVE AllDigits(_)
AllDigits(s) == s = "" \/ (IndexOf(Digits, Head(s)) < 10 /\ AllDigits(Tail(s)))

\* a value that is an integer: a number, or a string that is a decimal integer
\* literal from its first to its last character
IsInteger(v) ==
    \/ v.t = "number"
    \/ /\ v.t = "string" /\ v.s # ""
       /\ LET digits == IF Head(v.s) \in {"-", "+"} THEN Tail(v.s) ELSE v.s
          IN  digits # "" /\ AllDigits(digits)

NumericFilterKeys ==
    IF call.op = "Company.findAll" THEN {"minEmployees", "maxEmployees"} ELSE {"minSalary"}

\* C8: findAll raises ValidationError whenever a supplied numeric filter is not
\* parseable as an integer (a non-numeric string, the empty string, a numeric
\* prefix followed by other characters, null), and issues no query.
C8_NonIntegerRejected ==
    (IsFindAll /\ \E k \in NumericFilterKeys \cap DOMAIN call.filters.o :
                      ~IsInteger(call.filters.o[k])) =>
        (outcome.error = "BadRequestError" /\ queries = <<>>)

CanonicalBoolean(v) == v \in {Str("true"), Str("false"), Bool(TRUE), Bool(FALSE)}

\* C9: Job.findAll raises ValidationError, issuing no query, for every supplied
\* hasEquity value other than "true"/"false"/true/false, and accepts exactly
\* those (with hasEquity the only filter, the call fails iff it is not canonical).
C9_HasEquityCanonical ==
    (call.op = "Job.findAll" /\ "hasEquity" \in DOMAIN call.filters.o) =>
        /\ ~CanonicalBoolean(call.filters.o["hasEquity"]) =>
              (outcome.error = "BadRequestError" /\ queries = <<>>)
        /\ (CanonicalBoolean(call.filters.o["hasEquity"])
                /\ DOMAIN call.filters.o = {"hasEquity"}) =>
              (outcome.error = NoError /\ Len(queries) = 1)

C9_Witness ==
    /\ call.op = "Job.findAll"
    /\ call.filters.o = [hasEquity |-> Str("yes")]
    /\ outcome.error = "BadRequestError"
    /\ queries = <<>>

(***************************************************************************)
(* Properties of the repositories over any sequence of calls (Spec).       *)
(***************************************************************************)
\* C2: sqlForPartialUpdate with an empty field map raises BadRequestError for
\* every name mapping; so Job.update(id, {}) and Company.update(handle, {})
\* raise BadRequestError for every id/handle, stored or not, issue no storage
\* query and leave both tables unchanged.
C2_EmptyPayloadRejected ==
    /\ [](\A m \in NameMappings \cup {JobJsToSql, CompanyJsToSql} :
             sqlForPartialUpdate(<<>>, m).error = "BadRequestError")
    /\ [][(call'.op \in {"Job.update", "Company.update"} /\ Len(call'.data) = 0) =>
            /\ outcome'.error = "BadRequestError"
            /\ queries' = <<>>
            /\ companies' = companies
            /\ jobs' = jobs
            /\ nextId' = nextId]_vars

C2_Witness ==
    /\ call.op = "Job.update"
    /\ call.data = <<>>
    /\ \E row \in jobs : row.id = call.key
    /\ outcome.error = "BadRequestError"
    /\ queries = <<>>

\* C10: in every reachable storage state, Company.create with a stored handle
\* raises BadRequestError and leaves both tables unchanged; with a handle that
\* is not stored it inserts exactly one company row, holding the supplied fields.
C10_CreateCompany ==
    [][call'.op = "Company.create" =>
        LET data == call'.data
            row == CompanyRow(Field(data, "handle"), Field(data, "name"),
                              Field(data, "description"), Field(data, "numEmployees"),
                              Field(data, "logoUrl"))
        IN  /\ jobs' = jobs
            /\ IF \E c \in companies : c.handle = Field(data, "handle")
               THEN outcome'.error = "BadRequestError" /\ companies' = companies
               ELSE /\ outcome'.error = NoError
                    /\ row \notin companies
                    /\ companies' = companies \cup {row}]_vars

C10_Witness ==
    /\ call.op = "Company.create"
    /\ outcome.error = "BadRequestError"
    /\ Cardinality(companies) = 2
    /\ \E c \in companies : c.handle = call.key
    /\ Len(queries) = 1

\* C11: in every reachable storage state, Job.create with a companyHandle that
\* matches no stored company raises BadRequestError and inserts no job row; the
\* INSERT is issued only after the existence check, and only when that check
\* returned a row.
C11_CreateJobChecksCompany ==
    [][call'.op = "Job.create" =>
        LET h == Field(call'.data, "companyHandle")
            stored == \E c \in companies : c.handle = h
        IN  /\ queries'[1] = Query(SelectHandleSql, <<h>>)
            /\ ~stored => /\ outcome'.error = "BadRequestError"
                          /\ jobs' = jobs
                          /\ companies' = companies
                          /\ Len(queries') = 1
            /\ \A i \in 1..Len(queries') :
                  queries'[i].sql = InsertJobSql => (i = 2 /\ stored)]_vars

C11_Witness ==
    /\ call.op = "Job.create"
    /\ outcome.error = "BadRequestError"
    /\ companies # {}
    /\ jobs # {}
    /\ ~\E c \in companies : c.handle = Field(call.data, "companyHandle")
    /\ queries = <<Query(SelectHandleSql, <<Field(call.data, "companyHandle")>>)>>

\* the sequence is ordered by this field of its elements
OrderedBy(rows, field) ==
    \A i, j \in 1..Len(rows) : i < j => StrLeq(rows[i][field].s, rows[j][field].s)

\* the sequence lists exactly the elements of the set, each once
ListsExactly(rows, set) ==
    /\ {rows[i] : i \in 1..Len(rows)} = set
    /\ Len(rows) = Cardinality(set)

\* the key of the last call is the key of a stored record of its table
KeyStored(op, key, cs, js) ==
    IF op \in {"Company.get", "Company.update", "Company.remove"}
    THEN \E c \in cs : c.handle = key
    ELSE \E j \in js : j.id = key

KeyedOps ==
    {"Company.get", "Company.update", "Company.remove", "Job.get", "Job.update", "Job.remove"}

\* every key of the payload names a column of the call's table
NamesColumns(op, data, jsToSql) ==
    \A i \in 1..Len(data) :
        ColumnName(jsToSql, data[i].k)
            \in (IF op = "Company.update" THEN CompanyColumns ELSE JobColumns)

StoredHandles(cs) == {c.handle : c \in cs}

\* C14: a company's handle is immutable and unique: for every payload, one with
\* a 'handle' key included, Company.update either rejects the call or leaves
\* the handle of every stored company unchanged; and no two stored companies
\* ever share a handle.
C14_HandleImmutable ==
    /\ [](\A c1, c2 \in companies : c1.handle = c2.handle => c1 = c2)
    /\ [][call'.op = "Company.update" =>
            \/ outcome'.error # NoError /\ companies' = companies
            \/ StoredHandles(companies') = StoredHandles(companies)]_vars

\* the (id, companyHandle) pairs of the stored jobs
JobKeys(js) == {<<j.id, j.company_handle>> : j \in js}

\* C15: Job.update cannot change a job's companyHandle or id: for every
\* payload, ones with the keys 'companyHandle', 'company_handle' or 'id'
\* included, every stored job has the same id and companyHandle after the call
\* as before it.
C15_JobKeysImmutable ==
    [][call'.op = "Job.update" => JobKeys(jobs') = JobKeys(jobs)]_vars

\* C16: referential integrity holds in every reachable state: after any
\* sequence of create/update/remove calls on companies and jobs, the
\* companyHandle of every stored job is the handle of some stored company.
C16_ReferentialIntegrity ==
    \A j \in jobs : \E c \in companies : c.handle = j.company_handle

\* the payload fields an update accepts
RecognizedFields(op) ==
    IF op = "Company.update" THEN {"name", "description", "numEmployees", "logoUrl"}
    ELSE {"title", "salary", "equity"}

\* the record with the payload's values in the columns the payload names
WithSupplied(row, data, jsToSql) ==
    [col \in DOMAIN row |->
        IF \E i \in 1..Len(data) : ColumnName(jsToSql, data[i].k) = col
        THEN data[CHOOSE i \in 1..Len(data) : ColumnName(jsToSql, data[i].k) = col].v
        ELSE row[col]]

\* the call's table before and after goes from `table` to `after` by setting
\* exactly the supplied fields of the record with the key, which is returned
SetsSupplied(c, out, qs, table, after, columns, keyCol) ==
    LET old == CHOOSE row \in table : row[keyCol] = c.key
        new == WithSupplied(old, c.data, c.jsToSql)
    IN  /\ out = Returned(RowOut(columns, new))
        /\ after = (table \ {old}) \cup {new}
        /\ new[keyCol] = c.key
        /\ Len(qs) = 1
        /\ qs[1].sql = UpdateSql(columns, ExpectedSetCols(c.data, c.jsToSql, 1),
                                 "$" \o ToString(Len(c.data) + 1))
        /\ qs[1].params = ObjectValues(c.data) \o <<c.key>>

\* C17: an update (Job.update or Company.update) on a stored id/handle with a
\* non-empty payload of recognized fields succeeds and sets exactly the
\* supplied fields of the record with that key, the key being bound to
\* placeholder $N+1 after the N payload values; that record's other fields,
\* every other record and the other table are unchanged; a supplied null is
\* stored as null.
C17_UpdateSetsSuppliedFields ==
    [][(/\ call'.op \in {"Company.update", "Job.update"}
        /\ Len(call'.data) > 0
        /\ \A i \in 1..Len(call'.data) : call'.data[i].k \in RecognizedFields(call'.op)
        /\ KeyStored(call'.op, call'.key, companies, jobs)) =>
            IF call'.op = "Company.update"
            THEN /\ SetsSupplied(call', outcome', queries', companies, companies',
                                 CompanyColumns, "handle")
                 /\ jobs' = jobs
            ELSE /\ SetsSupplied(call', outcome', queries', jobs, jobs', JobColumns, "id")
                 /\ companies' = companies]_vars

C17_Witness ==
    /\ call.op = "Job.update"
    /\ call.data = <<Entry("title", Str("New")), Entry("salary", Null)>>
    /\ outcome.error = NoError
    /\ outcome.ret.salary = Null
    /\ Cardinality(jobs) = 2
    /\ \E j \in jobs : j.id = call.key /\ j.title = Str("New") /\ j.salary = Null
                        /\ j.equity = Str("0.5")
    /\ \E j \in jobs : j.id # call.key /\ j.title = Str("j") /\ j.salary = Num(1)
    /\ queries[1].params = <<Str("New"), Null, call.key>>

\* C18: for every stored company, Company.get(handle) returns that company's
\* fields together with a jobs collection containing exactly the stored jobs
\* whose companyHandle equals handle, each once, with id, title, salary, equity
\* and companyHandle; the collection is empty when the company has no jobs.
C18_GetReturnsCompanyWithJobs ==
    (call.op = "Company.get" /\ KeyStored(call.op, call.key, companies, jobs)) =>
        /\ outcome.error = NoError
        /\ \E c \in companies :
              /\ c.handle = call.key
              /\ outcome.ret.handle = c.handle
              /\ outcome.ret.name = c.name
              /\ outcome.ret.description = c.description
              /\ outcome.ret.numEmployees = c.num_employees
              /\ outcome.ret.logoUrl = c.logo_url
        /\ ListsExactly(outcome.ret.jobs,
                        {JobOut(j) : j \in {j \in jobs : j.company_handle = call.key}})

\* the last call was a remove that deleted a record
Removed == call.op \in {"Company.remove", "Job.remove"} /\ outcome.error = NoError

\* the call is a get, update or remove of the table `op` removed from
SameTable(op, next) ==
    IF op = "Company.remove" THEN next \in {"Company.get", "Company.update", "Company.remove"}
    ELSE next \in {"Job.get", "Job.update", "Job.remove"}

\* a remove on a stored key deletes the record with that key and nothing else
RemoveDeletesExactly ==
    [][(/\ call'.op \in {"Company.remove", "Job.remove"}
        /\ KeyStored(call'.op, call'.key, companies, jobs)) =>
            /\ outcome' = Returned(Undef)
            /\ IF call'.op = "Company.remove"
               THEN /\ companies' = {c \in companies : c.handle # call'.key}
                    /\ Cardinality(companies') = Cardinality(companies) - 1
                    /\ jobs' = jobs
               ELSE /\ jobs' = {j \in jobs : j.id # call'.key}
                    /\ Cardinality(jobs') = Cardinality(jobs) - 1
                    /\ companies' = companies]_vars

\* a get, remove or update (non-empty payload naming columns) of the key just
\* removed raises NotFoundError
RemovedKeyNotFound ==
    [][(/\ Removed
        /\ SameTable(call.op, call'.op)
        /\ call'.key = call.key
        /\ call'.op \in {"Company.update", "Job.update"} =>
              (Len(call'.data) > 0 /\ NamesColumns(call'.op, call'.data, call'.jsToSql))) =>
            outcome'.error = "NotFoundError"]_vars

\* the key just removed is stored again only by a create
RemovedKeyStaysAbsent ==
    [][(/\ Removed
        /\ call'.op # (IF call.op = "Company.remove" THEN "Company.create"
                       ELSE "Job.create")) =>
            ~KeyStored(call.op, call.key, companies', jobs')]_vars

\* C20: remove on a stored id/handle deletes exactly the record with that key
\* and no other record of that table; afterwards get, update and remove with
\* the same key raise NotFoundError until a record with that key is created
\* again: the key is not found by the call that follows the remove, and no
\* call other than a create stores a record under it.
C20_RemovedUntilCreated ==
    /\ RemoveDeletesExactly
    /\ RemovedKeyNotFound
    /\ RemovedKeyStaysAbsent

(***************************************************************************)
(* Properties of findAll over every stored set of rows (FindSpec).         *)
(***************************************************************************)
\* a valid filter record for Job.findAll: recognized keys, a pattern, an
\* integer >= 0 (as a number or a decimal string), a canonical boolean
ValidJobFilters(f) ==
    /\ DOMAIN f \subseteq {"titleLike", "minSalary", "hasEquity"}
    /\ "titleLike" \in DOMAIN f => (f["titleLike"].t = "string" /\ f["titleLike"].s # "")
    /\ "minSalary" \in DOMAIN f =>
          (IsInteger(f["minSalary"]) /\ parseInt(f["minSalary"]).n >= 0)
    /\ "hasEquity" \in DOMAIN f => CanonicalBoolean(f["hasEquity"])

\* the job satisfies every filter the record supplies
SatisfiesJobFilters(j, f) ==
    /\ "titleLike" \in DOMAIN f =>
          Contains(ToLower(j.title.s), ToLower(f["titleLike"].s))
    /\ "minSalary" \in DOMAIN f =>
          (j.salary.t = "number" /\ j.salary.n >= parseInt(f["minSalary"]).n)
    /\ ("hasEquity" \in DOMAIN f /\ f["hasEquity"] \in {Str("true"), Bool(TRUE)}) =>
          j.equity # Null

\* C13: for every stored set of jobs and every valid filter record,
\* Job.findAll returns exactly the jobs that satisfy all supplied filters (title
\* contains titleLike case-insensitively; salary >= minSalary, 0 included, a
\* null salary never satisfying it; equity non-null when hasEquity is true),
\* ordered by title.
C13_FindAllReturnsMatchingJobs ==
    (call.op = "Job.findAll" /\ ValidJobFilters(call.filters.o)) =>
        /\ outcome.error = NoError
        /\ ListsExactly(outcome.ret,
                        {JobOut(j) : j \in {j \in jobs :
                                              SatisfiesJobFilters(j, call.filters.o)}})
        /\ OrderedBy(outcome.ret, "title")

\* the record holds hasEquity = false (as a boolean or as the string) and
\* nothing else
OnlyHasEquityFalse(filters) ==
    /\ filters.t = "object"
    /\ DOMAIN filters.o = {"hasEquity"}
    /\ filters.o["hasEquity"] \in {Bool(FALSE), Str("false")}

\* C19: on the no-filter path (filters undefined or an empty record) findAll
\* returns every stored row, ordered by name for companies and by title for
\* jobs; and Job.findAll with hasEquity = false as the only filter also
\* returns every stored job ordered by title.
C19_NoFilterReturnsAll ==
    /\ (/\ call.op = "Company.findAll"
        /\ (call.filters.t = "undefined" \/ DOMAIN call.filters.o = {})) =>
            /\ outcome.error = NoError
            /\ ListsExactly(outcome.ret, {CompanyOut(c) : c \in companies})
            /\ OrderedBy(outcome.ret, "name")
    /\ (/\ call.op = "Job.findAll"
        /\ \/ call.filters.t = "undefined"
           \/ DOMAIN call.filters.o = {}
           \/ OnlyHasEquityFalse(call.filters)) =>
            /\ outcome.error = NoError
            /\ ListsExactly(outcome.ret, {JobOut(j) : j \in jobs})
            /\ OrderedBy(outcome.ret, "title")

C19_Witness ==
    /\ call.op = "Job.findAll"
    /\ OnlyHasEquityFalse(call.filters)
    /\ call.filters.o["hasEquity"] = Str("false")
    /\ jobs = JobPool
    /\ \E j \in jobs : j.equity = Null
    /\ outcome.error = NoError
    /\ Len(outcome.ret) = 4

(***************************************************************************)
(* Properties of concurrent requests (ConcSpec).                           *)
(***************************************************************************)
\* requests p and q are the only ones that create or remove a company with
\* this handle, both create it, and both calls have ended
TwoCreatesEnded(p, q, handle) ==
    /\ p # q
    /\ \A r \in {p, q} : /\ inflight[r].op = "Company.create"
                          /\ inflight[r].key = handle
                          /\ inflight[r].pc = "done"
    /\ \A r \in Procs \ {p, q} :
          ~(inflight[r].op \in {"Company.create", "Company.remove"}
                /\ inflight[r].key = handle)

\* the call of request w returned the company it created, which is stored
ReturnedCreated(w) ==
    /\ inflight[w].outcome.error = NoError
    /\ inflight[w].outcome.ret.handle = inflight[w].key
    /\ \E c \in companies : CompanyOut(c) = inflight[w].outcome.ret

\* C21: when two Company.create calls with the same handle run concurrently
\* (each a duplicate-check query followed by an insert query, interleaved
\* arbitrarily, the handle being the primary key), at most one company with
\* that handle is ever stored, exactly one call returns the created company,
\* and the other call ends with BadRequestError (the validation error).
C21_ConcurrentCreateCompany ==
    /\ \A c1, c2 \in companies : c1.handle = c2.handle => c1 = c2
    /\ \A p, q \in Procs, handle \in Handles :
          TwoCreatesEnded(p, q, handle) =>
              \E w \in {p, q} :
                  /\ ReturnedCreated(w)
                  /\ \A l \in {p, q} \ {w} :
                        inflight[l].outcome.error = "BadRequestError"

\* C22: under any interleaving of a Job.create call (existence-check query,
\* then insert query) with a concurrent Company.remove of the same handle, no
\* job row is inserted at a moment when its companyHandle matches no stored
\* company: a step that inserts a job finds its company stored, and a
\* Job.create that ends with an error has inserted nothing.
C22_JobInsertedWhileCompanyExists ==
    [][/\ \A j \in jobs' \ jobs : \E c \in companies : c.handle = j.company_handle
       /\ (call'.op = "Job.create" /\ outcome'.error # NoError) => jobs' = jobs]_vars

(***************************************************************************)
(* Properties of the SQL text (TextSpec).                                  *)
(***************************************************************************)
\* the columns update may set: "Data can include" of update's contract
UpdatableColumns(op) ==
    IF op = "Company.update" THEN {"name", "description", "num_employees", "logo_url"}
    ELSE {"title", "salary", "equity"}

\* the column names written into a SET list
SetColumns(setCols) ==
    {ParseAssignment(a).col : a \in {SplitBy(setCols, ", ")[i] :
                                        i \in 1..Len(SplitBy(setCols, ", "))}}

\* the SET list of the UPDATE statement the last call issued
IssuedSetCols ==
    sqlForPartialUpdate(call.data, call.jsToSql).setCols

\* C23: client-supplied data never reaches SQL text: the fragment returned by
\* generateCompanyFiltersSql and generateJobFiltersSql depends only on which
\* filters are present, not on their values; every column name that
\* sqlForPartialUpdate writes into setCols for a payload passed by Job.update
\* or Company.update belongs to the fixed set of that table's updatable
\* columns; and values appear only in the parameter list.
C23_NoClientDataInSqlText ==
    /\ call.op = "generateCompanyFiltersSql" =>
          \A o \in CompanyOptions :
              DOMAIN o = DOMAIN call.filters.o =>
                  generateCompanyFiltersSql(o).filtersSql = outcome.ret.filtersSql
    /\ call.op = "generateJobFiltersSql" =>
          \A o \in JobOptions :
              DOMAIN o = DOMAIN call.filters.o =>
                  generateJobFiltersSql(o).filtersSql = outcome.ret.filtersSql
    /\ (call.op \in {"Company.update", "Job.update"} /\ queries # <<>>) =>
          /\ queries[1].sql =
                UpdateSql(IF call.op = "Company.update" THEN CompanyColumns ELSE JobColumns,
                          IssuedSetCols, "$" \o ToString(Len(call.data) + 1))
          /\ SetColumns(IssuedSetCols) \subseteq UpdatableColumns(call.op)
          /\ queries[1].params = ObjectValues(call.data) \o <<call.key>>
          /\ \A d \in (IF call.op = "Company.update" THEN TextCompanyPayloads
                        ELSE TextJobPayloads) :
                ObjectKeys(d) = ObjectKeys(call.data) =>
                    sqlForPartialUpdate(d, call.jsToSql).setCols = IssuedSetCols

====
